---- MODULE Spec2Model ----
(***************************************************************************)
(* go-expense-tracker: the expenditure repository (in-memory map and       *)
(* PostgreSQL table), the domain constructor NewExpenditure and the HTTP   *)
(* handlers behind ExpenditureRouter.                                      *)
(*                                                                         *)
(* Values.  A uuid.UUID is a natural number, uuid.Nil is 0.  A string that *)
(* is used as an identifier (a map key, the tail of a URL path) is a pair  *)
(* <<form, n>>: the canonical lower-case text of UUID n (what              *)
(* UUID.String() prints), another spelling of UUID n that uuid.Parse also  *)
(* accepts (upper case), or a text that is no UUID at all.  An amount is   *)
(* an integer number of thousandths (3500 is 3.5).  A time is an integer   *)
(* instant on one UTC axis.  An error is its message; "" is the nil error. *)
(***************************************************************************)
EXTENDS Integers, Sequences, FiniteSets, TLC

VARIABLES
    Expenditures,   \* MemoryService.Expenditures: map[string]*domain.Expenditure
    Categories,     \* MemoryService.Categories:   map[string]*domain.Category
    now,            \* the latest reading of time.Now()
    resp,           \* the request served last and the response written to it
    posted,         \* history: key -> the body of the POST that created it, while no PUT or DELETE named the key
    scenario,       \* history: the statuses of the create/fetch/delete/fetch scenario while the run follows it
    table,          \* DBService: the rows of table expenditures
    call,           \* the repository call made last, with what each store returned
    deleted,        \* history: the keys DeleteExpenditure removed from the map, until an add stores them again
    backend,        \* ExpenditureHandler.service: "memory" (MemoryService) or "db" (DBService)
    pc,             \* per request goroutine: where it is in its handler
    job,            \* per request goroutine: its request, the record it built, its repository calls, its answer
    seed,           \* history: the identifiers the store held when the concurrent requests began
    live,           \* history: successful AddExpenditure calls minus successful DeleteExpenditure calls on the map
    latest,         \* history: key -> the record the last successful add or update wrote, none after a delete
    lk,             \* MemoryService's sync.RWMutex: the writer that holds it (0: none), the readers that hold it
    heap,           \* the domain.Expenditure objects: address -> fields
    lpc,            \* per caller of the locked store: where it is in the method it called
    ljob,           \* per caller of the locked store: its call, what the method returned, what it has encoded
    written,        \* history: the records passed to AddExpenditure or UpdateExpenditure of the locked store
    ctor            \* the NewExpenditure call made last: its arguments, the readings of time.Now() and uuid.New(), its result

----------------------------------------------------------------------------
(* Bounds of the model *)

\* number of distinct identifiers uuid.New() may return for an expenditure
NumUUIDs == 2

\* number of goroutines serving requests at the same time
NumProcs == 2

\* the clock reads 1..MaxNow
MaxNow == 2

(* Program constants *)

\* uuid.Nil, the zero UUID
NilUUID == 0

\* the number of entries of categoryData
NumCategories == 13

----------------------------------------------------------------------------
(* Errors (domain/repository.go, domain/expenditure.go) *)

NoErr == ""
ErrExpenditureAlreadyExists == "expenditure already exists"
ErrExpenditureNotFound == "expenditure not found"
ErrInvalidExpenditureAmount == "invalid expenditure amount"
ErrExpenditureDescriptionEmpty == "expenditure description cannot be empty"
ErrExpenditureFutureDate == "expenditure date cannot be in the future"
ErrExpenditureCategoryIdEmpty == "expenditure category ID cannot be empty"

(* HTTP statuses *)
StatusOK == 200
StatusCreated == 201
StatusNoContent == 204
StatusBadRequest == 400
StatusNotFound == 404
StatusMethodNotAllowed == 405
StatusInternalServerError == 500

----------------------------------------------------------------------------
(* Identifiers and their text *)

UUIDs == 1..NumUUIDs

\* UUID.String(): the canonical lower-case text
UUIDString(u) == <<"lower", u>>

\* the same UUID spelled in upper case: not what String() prints
UpperString(u) == <<"upper", u>>

\* a text that is not a UUID
NotAUUID == <<"text", 0>>

\* uuid.Parse: accepts either spelling, fails on anything else
UUIDParse(s) ==
    IF s[1] \in {"lower", "upper"}
    THEN [err |-> NoErr, uuid |-> s[2]]
    ELSE [err |-> "invalid UUID", uuid |-> NilUUID]

\* the identifier texts a client or caller supplies
IdStrings == {UUIDString(u) : u \in UUIDs} \cup {UpperString(u) : u \in UUIDs} \cup {NotAUUID}

\* the identifiers of the seeded categories (each a uuid.New() of its own)
CategoryUUIDs == {100 + n : n \in 1..NumCategories}

\* a UUID that names no category
UnknownCategory == 100 + NumCategories + 1

----------------------------------------------------------------------------
(* domain.Category and the seeding of the in-memory store *)

\* NewCategory that does not keep the color
NewCategory_DropsColor(id, name, color) ==
    IF name = ""
    THEN [err |-> "category name cannot be empty", c |-> <<>>]
    ELSE IF color = ""
    THEN [err |-> "category color cannot be empty", c |-> <<>>]
    ELSE [err |-> NoErr, c |-> <<[ID |-> id, Name |-> name, Color |-> ""]>>]

\* NewCategory(name, color); id is the value uuid.New() returns
NewCategory(id, name, color) ==
    IF name = ""
    THEN [err |-> "category name cannot be empty", c |-> <<>>]
    ELSE IF color = ""
    THEN [err |-> "category color cannot be empty", c |-> <<>>]
    ELSE [err |-> NoErr, c |-> <<[ID |-> id, Name |-> name, Color |-> color]>>]

\* categoryData, in the order of the source text
categoryData ==
    << <<"Food & Dining", "#FF6B6B">>, <<"Transportation", "#4ECDC4">>,
       <<"Housing", "#1A535C">>, <<"Utilities", "#FFE66D">>,
       <<"Health & Fitness", "#2EC4B6">>, <<"Entertainment", "#FF9F1C">>,
       <<"Shopping", "#C084FC">>, <<"Travel", "#00A8E8">>,
       <<"Education", "#6D6875">>, <<"Financial Services", "#5D2E8C">>,
       <<"Personal Care", "#FFB6B9">>, <<"Gifts & Donations", "#FF7E67">>,
       <<"Miscellaneous", "#A0AEC0">> >>

\* setupCategories: one category per entry of categoryData that NewCategory accepts
setupCategories ==
    LET made(n) == NewCategory(100 + n, categoryData[n][1], categoryData[n][2])
        good == {n \in 1..Len(categoryData) : made(n).err = NoErr}
    IN [k \in {UUIDString(made(n).c[1].ID) : n \in good} |->
            made(CHOOSE n \in good : UUIDString(made(n).c[1].ID) = k).c[1]]

----------------------------------------------------------------------------
(* domain.Expenditure *)

\* NewExpenditure that forgets the category reference
NewExpenditure_DropsCategory(description, amount, date, categoryId, t, id) ==
    IF description = ""
    THEN [err |-> ErrExpenditureDescriptionEmpty, e |-> <<>>]
    ELSE IF amount <= 0
    THEN [err |-> ErrInvalidExpenditureAmount, e |-> <<>>]
    ELSE IF date > t
    THEN [err |-> ErrExpenditureFutureDate, e |-> <<>>]
    ELSE IF categoryId = NilUUID
    THEN [err |-> ErrExpenditureCategoryIdEmpty, e |-> <<>>]
    ELSE [err |-> NoErr,
          e |-> <<[ID |-> id, Description |-> description, Amount |-> amount,
                   Date |-> date, CategoryId |-> NilUUID]>>]

\* NewExpenditure that tests amount < 0
NewExpenditure_AcceptsZero(description, amount, date, categoryId, t, id) ==
    IF description = ""
    THEN [err |-> ErrExpenditureDescriptionEmpty, e |-> <<>>]
    ELSE IF amount < 0
    THEN [err |-> ErrInvalidExpenditureAmount, e |-> <<>>]
    ELSE IF date > t
    THEN [err |-> ErrExpenditureFutureDate, e |-> <<>>]
    ELSE IF categoryId = NilUUID
    THEN [err |-> ErrExpenditureCategoryIdEmpty, e |-> <<>>]
    ELSE [err |-> NoErr,
          e |-> <<[ID |-> id, Description |-> description, Amount |-> amount,
                   Date |-> date, CategoryId |-> categoryId]>>]

\* NewExpenditure that tests the amount before the description
NewExpenditure_AmountFirst(description, amount, date, categoryId, t, id) ==
    IF amount <= 0
    THEN [err |-> ErrInvalidExpenditureAmount, e |-> <<>>]
    ELSE IF description = ""
    THEN [err |-> ErrExpenditureDescriptionEmpty, e |-> <<>>]
    ELSE IF date > t
    THEN [err |-> ErrExpenditureFutureDate, e |-> <<>>]
    ELSE IF categoryId = NilUUID
    THEN [err |-> ErrExpenditureCategoryIdEmpty, e |-> <<>>]
    ELSE [err |-> NoErr,
          e |-> <<[ID |-> id, Description |-> description, Amount |-> amount,
                   Date |-> date, CategoryId |-> categoryId]>>]

\* NewExpenditure(description, amount, date, categoryId); t is the reading of
\* time.Now(), id the value uuid.New() returns
NewExpenditure(description, amount, date, categoryId, t, id) ==
    IF description = ""
    THEN [err |-> ErrExpenditureDescriptionEmpty, e |-> <<>>]
    ELSE IF amount <= 0
    THEN [err |-> ErrInvalidExpenditureAmount, e |-> <<>>]
    ELSE IF date > t
    THEN [err |-> ErrExpenditureFutureDate, e |-> <<>>]
    ELSE IF categoryId = NilUUID
    THEN [err |-> ErrExpenditureCategoryIdEmpty, e |-> <<>>]
    ELSE [err |-> NoErr,
          e |-> <<[ID |-> id, Description |-> description, Amount |-> amount,
                   Date |-> date, CategoryId |-> categoryId]>>]

----------------------------------------------------------------------------
(* MemoryService: each method runs under the store's lock; m is the map    *)
(* before the call, the result carries the map after it.                   *)

\* the map m with key k bound to e
MapPut(m, k, e) == [x \in DOMAIN m \cup {k} |-> IF x = k THEN e ELSE m[x]]

\* delete(m, k)
MapDelete(m, k) == [x \in DOMAIN m \ {k} |-> m[x]]

\* AddExpenditure that stores the record whether or not the key is taken
MemoryService_AddExpenditure_Overwrites(m, expenditure) ==
    [err |-> NoErr, m |-> MapPut(m, UUIDString(expenditure.ID), expenditure)]

\* AddExpenditure that files the record under the upper-case text of its id
MemoryService_AddExpenditure_UpperKey(m, expenditure) ==
    IF UpperString(expenditure.ID) \in DOMAIN m
    THEN [err |-> ErrExpenditureAlreadyExists, m |-> m]
    ELSE [err |-> NoErr, m |-> MapPut(m, UpperString(expenditure.ID), expenditure)]

MemoryService_AddExpenditure(m, expenditure) ==
    IF UUIDString(expenditure.ID) \in DOMAIN m
    THEN [err |-> ErrExpenditureAlreadyExists, m |-> m]
    ELSE [err |-> NoErr, m |-> MapPut(m, UUIDString(expenditure.ID), expenditure)]

MemoryService_GetExpenditureByID(m, id) ==
    IF id \notin DOMAIN m
    THEN [err |-> ErrExpenditureNotFound, e |-> <<>>, m |-> m]
    ELSE [err |-> NoErr, e |-> <<m[id]>>, m |-> m]

\* GetAllExpenditures that appends the first record it visits at every iteration
MemoryService_GetAllExpenditures_RepeatsFirst(m, order) ==
    [err |-> NoErr, list |-> [i \in 1..Len(order) |-> m[order[1]]], m |-> m]

\* order: the order in which range visits the keys of the map
MemoryService_GetAllExpenditures(m, order) ==
    [err |-> NoErr, list |-> [i \in 1..Len(order) |-> m[order[i]]], m |-> m]

\* UpdateExpenditure that stores the record also when the key is absent
MemoryService_UpdateExpenditure_Upserts(m, expenditure) ==
    LET id == UUIDString(expenditure.ID)
    IN IF id \notin DOMAIN m
       THEN [err |-> ErrExpenditureNotFound, m |-> MapPut(m, id, expenditure)]
       ELSE [err |-> NoErr, m |-> MapPut(m, id, expenditure)]

MemoryService_UpdateExpenditure(m, expenditure) ==
    LET id == UUIDString(expenditure.ID)
    IN IF id \notin DOMAIN m
       THEN [err |-> ErrExpenditureNotFound, m |-> m]
       ELSE [err |-> NoErr, m |-> MapPut(m, id, expenditure)]

\* DeleteExpenditure that reports success and leaves the record
MemoryService_DeleteExpenditure_KeepsRecord(m, id) ==
    IF id \notin DOMAIN m
    THEN [err |-> ErrExpenditureNotFound, m |-> m]
    ELSE [err |-> NoErr, m |-> m]

MemoryService_DeleteExpenditure(m, id) ==
    IF id \notin DOMAIN m
    THEN [err |-> ErrExpenditureNotFound, m |-> m]
    ELSE [err |-> NoErr, m |-> MapDelete(m, id)]

\* the orders in which a range over the keys S may visit them
Orders(S) == {o \in [1..Cardinality(S) -> S] : \A i, j \in 1..Cardinality(S) : i # j => o[i] # o[j]}

----------------------------------------------------------------------------
(* DBService: table expenditures (id UUID PRIMARY KEY, description TEXT,    *)
(* amount DECIMAL(10, 2), date TIMESTAMP) as a set of rows; each statement  *)
(* is one step of the database.                                             *)

\* DECIMAL(10, 2): the amount rounded to hundredths, half away from zero
Decimal2(a) ==
    IF a >= 0 THEN ((a + 5) \div 10) * 10 ELSE 0 - (((0 - a) + 5) \div 10) * 10

\* SELECT EXISTS(SELECT 1 FROM expenditures WHERE id = $1)
SelectExists(tbl, id) == \E row \in tbl : row.id = id

\* INSERT that checks no key
Insert_NoPrimaryKey(tbl, e) ==
    [err |-> NoErr,
     tbl |-> tbl \cup {[id |-> e.ID, description |-> e.Description,
                        amount |-> Decimal2(e.Amount), date |-> e.Date]}]

\* INSERT INTO expenditures (id, description, amount, date): the primary key
\* rejects a second row with the id of a row of the table
Insert(tbl, e) ==
    IF \E row \in tbl : row.id = e.ID
    THEN [err |-> "pq: duplicate key value violates unique constraint", tbl |-> tbl]
    ELSE [err |-> NoErr,
          tbl |-> tbl \cup {[id |-> e.ID, description |-> e.Description,
                             amount |-> Decimal2(e.Amount), date |-> e.Date]}]

\* UPDATE expenditures SET description, amount, date WHERE id = $4
Update(tbl, e) ==
    {row \in tbl : row.id # e.ID}
        \cup {[id |-> row.id, description |-> e.Description,
                amount |-> Decimal2(e.Amount), date |-> e.Date] : row \in {x \in tbl : x.id = e.ID}}

\* DELETE FROM expenditures WHERE id = $1
Delete(tbl, id) == {row \in tbl : row.id # id}

\* Scan into a domain.Expenditure: CategoryId is no column and keeps uuid.Nil
Scan(row) ==
    [ID |-> row.id, Description |-> row.description, Amount |-> row.amount,
     Date |-> row.date, CategoryId |-> NilUUID]

\* the first half of AddExpenditure: the existence check
DBService_AddExpenditure_Check(tbl, expenditure) ==
    IF SelectExists(tbl, expenditure.ID)
    THEN [err |-> ErrExpenditureAlreadyExists, tbl |-> tbl, done |-> TRUE]
    ELSE [err |-> NoErr, tbl |-> tbl, done |-> FALSE]

\* the second half of AddExpenditure: the INSERT
DBService_AddExpenditure_Write(tbl, expenditure) ==
    LET i == Insert(tbl, expenditure)
    IN IF i.err # NoErr
       THEN [err |-> "error inserting expenditure", tbl |-> i.tbl, done |-> TRUE]
       ELSE [err |-> NoErr, tbl |-> i.tbl, done |-> TRUE]

\* AddExpenditure with no other statement between its two
DBService_AddExpenditure(tbl, expenditure) ==
    LET c == DBService_AddExpenditure_Check(tbl, expenditure)
    IN IF c.done THEN c ELSE DBService_AddExpenditure_Write(c.tbl, expenditure)

DBService_GetExpenditureByID(tbl, id) ==
    LET p == UUIDParse(id)
    IN IF p.err # NoErr
       THEN [err |-> "invalid UUID format", e |-> <<>>, tbl |-> tbl]
       ELSE IF ~\E row \in tbl : row.id = p.uuid
       THEN [err |-> ErrExpenditureNotFound, e |-> <<>>, tbl |-> tbl]
       ELSE [err |-> NoErr, e |-> <<Scan(CHOOSE row \in tbl : row.id = p.uuid)>>, tbl |-> tbl]

\* order: the order in which the query returns the rows
DBService_GetAllExpenditures(tbl, order) ==
    [err |-> NoErr, list |-> [i \in 1..Len(order) |-> Scan(order[i])], tbl |-> tbl]

\* the first half of UpdateExpenditure: the existence check
DBService_UpdateExpenditure_Check(tbl, expenditure) ==
    IF ~SelectExists(tbl, expenditure.ID)
    THEN [err |-> ErrExpenditureNotFound, tbl |-> tbl, done |-> TRUE]
    ELSE [err |-> NoErr, tbl |-> tbl, done |-> FALSE]

\* the second half of UpdateExpenditure: the UPDATE, whose row count is not read
DBService_UpdateExpenditure_Write(tbl, expenditure) ==
    [err |-> NoErr, tbl |-> Update(tbl, expenditure), done |-> TRUE]

DBService_UpdateExpenditure(tbl, expenditure) ==
    LET c == DBService_UpdateExpenditure_Check(tbl, expenditure)
    IN IF c.done THEN c ELSE DBService_UpdateExpenditure_Write(c.tbl, expenditure)

\* the first half of DeleteExpenditure: parse the id, check that the row exists
DBService_DeleteExpenditure_Check(tbl, id) ==
    LET p == UUIDParse(id)
    IN IF p.err # NoErr
       THEN [err |-> "invalid UUID format", tbl |-> tbl, done |-> TRUE]
       ELSE IF ~SelectExists(tbl, p.uuid)
       THEN [err |-> ErrExpenditureNotFound, tbl |-> tbl, done |-> TRUE]
       ELSE [err |-> NoErr, tbl |-> tbl, done |-> FALSE]

\* a DELETE half that reads the row count and reports not-found for no row
DBService_DeleteExpenditure_Write_ChecksRows(tbl, id) ==
    IF ~SelectExists(tbl, UUIDParse(id).uuid)
    THEN [err |-> ErrExpenditureNotFound, tbl |-> tbl, done |-> TRUE]
    ELSE [err |-> NoErr, tbl |-> Delete(tbl, UUIDParse(id).uuid), done |-> TRUE]

\* the second half of DeleteExpenditure: the DELETE, whose row count is not read
DBService_DeleteExpenditure_Write(tbl, id) ==
    [err |-> NoErr, tbl |-> Delete(tbl, UUIDParse(id).uuid), done |-> TRUE]

DBService_DeleteExpenditure(tbl, id) ==
    LET c == DBService_DeleteExpenditure_Check(tbl, id)
    IN IF c.done THEN c ELSE DBService_DeleteExpenditure_Write(c.tbl, id)

----------------------------------------------------------------------------
(* HTTP requests.  A request is its method, its path (kind "/expenditures", *)
(* "/expenditures/" followed by id, or any other path) and its body; a body *)
(* is what json.Decode makes of it: an error, or the four fields, a field   *)
(* the JSON text leaves out keeping its zero value.                         *)

Body(description, amount, date, categoryId) ==
    [malformed |-> FALSE, Description |-> description, Amount |-> amount,
     Date |-> date, CategoryId |-> categoryId]

\* a body json.Decode rejects, and the body of a request that carries none
MalformedBody == [malformed |-> TRUE, Description |-> "", Amount |-> 0, Date |-> 0, CategoryId |-> NilUUID]

\* the bodies clients send: the scenario's body with each field valid or not
\* (empty description, amount -5, a date no clock of the model has reached, no
\* category), the same with amount 0, a second valid body that differs from it in
\* every field (its date is reached only when the clock reads MaxNow, its
\* category is not one of the store's), and a body that does not decode
Bodies ==
    {Body(d, a, t, c) : d \in {"", "Coffee"}, a \in {0 - 5000, 3500},
                        t \in {0, MaxNow + 1}, c \in {NilUUID, 100 + 1}}
        \cup {Body("Coffee", 0, 0, 100 + 1), Body("Tea", 1005, MaxNow, UnknownCategory), MalformedBody}

Methods == {"GET", "POST", "PUT", "DELETE", "PATCH"}

Request(method, path, id, body) == [method |-> method, path |-> path, id |-> id, body |-> body]

\* what a handler answers: status, message (http.Error) or record or list
\* (json.Encode), the repository calls it made with their errors, the map after it
Answer(status, msg, rec, list, calls, m) ==
    [status |-> status, msg |-> msg, rec |-> rec, list |-> list, calls |-> calls, m |-> m]

----------------------------------------------------------------------------
(* handlers: ExpenditureHandler over the in-memory store *)

Handler_AddExpenditure(m, r, t, id) ==
    IF r.method # "POST"
    THEN Answer(StatusMethodNotAllowed, "Method not allowed", <<>>, <<>>, <<>>, m)
    ELSE IF r.body.malformed
    THEN Answer(StatusBadRequest, "Invalid request body", <<>>, <<>>, <<>>, m)
    ELSE LET n == NewExpenditure(r.body.Description, r.body.Amount, r.body.Date,
                                 r.body.CategoryId, t, id)
         IN IF n.err # NoErr
            THEN Answer(StatusBadRequest, n.err, <<>>, <<>>, <<>>, m)
            ELSE LET a == MemoryService_AddExpenditure(m, n.e[1])
                     calls == << <<"AddExpenditure", a.err>> >>
                 IN IF a.err # NoErr
                    THEN Answer(StatusInternalServerError, a.err, <<>>, <<>>, calls, a.m)
                    ELSE Answer(StatusCreated, "", n.e, <<>>, calls, a.m)

Handler_GetAllExpenditures(m, r, order) ==
    IF r.method # "GET"
    THEN Answer(StatusMethodNotAllowed, "Method not allowed", <<>>, <<>>, <<>>, m)
    ELSE LET g == MemoryService_GetAllExpenditures(m, order)
             calls == << <<"GetAllExpenditures", g.err>> >>
         IN IF g.err # NoErr
            THEN Answer(StatusInternalServerError, g.err, <<>>, <<>>, calls, g.m)
            ELSE Answer(StatusOK, "", <<>>, g.list, calls, g.m)

Handler_GetExpenditureByID(m, r) ==
    IF r.method # "GET"
    THEN Answer(StatusMethodNotAllowed, "Method not allowed", <<>>, <<>>, <<>>, m)
    ELSE LET g == MemoryService_GetExpenditureByID(m, r.id)
             calls == << <<"GetExpenditureByID", g.err>> >>
         IN IF g.err = ErrExpenditureNotFound
            THEN Answer(StatusNotFound, g.err, <<>>, <<>>, calls, g.m)
            ELSE IF g.err # NoErr
            THEN Answer(StatusInternalServerError, g.err, <<>>, <<>>, calls, g.m)
            ELSE Answer(StatusOK, "", g.e, <<>>, calls, g.m)

\* the part of UpdateExpenditure after the existence check: decode, validate,
\* parse the id, build the record (CategoryId is not set: it keeps uuid.Nil), update
Handler_UpdateExpenditure_Write(m, r, t, calls0) ==
    IF r.body.malformed
    THEN Answer(StatusBadRequest, "Invalid request body", <<>>, <<>>, calls0, m)
    ELSE IF r.body.Description = ""
    THEN Answer(StatusBadRequest, ErrExpenditureDescriptionEmpty, <<>>, <<>>, calls0, m)
    ELSE IF r.body.Amount <= 0
    THEN Answer(StatusBadRequest, ErrInvalidExpenditureAmount, <<>>, <<>>, calls0, m)
    ELSE IF r.body.Date > t
    THEN Answer(StatusBadRequest, ErrExpenditureFutureDate, <<>>, <<>>, calls0, m)
    ELSE LET p == UUIDParse(r.id)
         IN IF p.err # NoErr
            THEN Answer(StatusBadRequest, "Invalid UUID", <<>>, <<>>, calls0, m)
            ELSE LET expenditure == [ID |-> p.uuid, Description |-> r.body.Description,
                                     Amount |-> r.body.Amount, Date |-> r.body.Date,
                                     CategoryId |-> NilUUID]
                     u == MemoryService_UpdateExpenditure(m, expenditure)
                     calls == Append(calls0, <<"UpdateExpenditure", u.err>>)
                 IN IF u.err # NoErr
                    THEN Answer(StatusInternalServerError, u.err, <<>>, <<>>, calls, u.m)
                    ELSE Answer(StatusOK, "", <<expenditure>>, <<>>, calls, u.m)

\* the existence check of UpdateExpenditure; "" as the status: the handler goes on
Handler_UpdateExpenditure_Check(m, r) ==
    IF r.method # "PUT"
    THEN Answer(StatusMethodNotAllowed, "Method not allowed", <<>>, <<>>, <<>>, m)
    ELSE LET g == MemoryService_GetExpenditureByID(m, r.id)
             calls == << <<"GetExpenditureByID", g.err>> >>
         IN IF g.err = ErrExpenditureNotFound
            THEN Answer(StatusNotFound, g.err, <<>>, <<>>, calls, g.m)
            ELSE IF g.err # NoErr
            THEN Answer(StatusInternalServerError, g.err, <<>>, <<>>, calls, g.m)
            ELSE Answer(0, "", <<>>, <<>>, calls, g.m)

\* UpdateExpenditure that decodes the body before it looks the id up
Handler_UpdateExpenditure_DecodesFirst(m, r, t) ==
    IF r.method = "PUT" /\ r.body.malformed
    THEN Answer(StatusBadRequest, "Invalid request body", <<>>, <<>>, <<>>, m)
    ELSE LET c == Handler_UpdateExpenditure_Check(m, r)
         IN IF c.status # 0 THEN c ELSE Handler_UpdateExpenditure_Write(c.m, r, t, c.calls)

\* UpdateExpenditure served with no other request in between its two calls
Handler_UpdateExpenditure(m, r, t) ==
    LET c == Handler_UpdateExpenditure_Check(m, r)
    IN IF c.status # 0 THEN c ELSE Handler_UpdateExpenditure_Write(c.m, r, t, c.calls)

\* DeleteExpenditure that never calls WriteHeader: the status stays 200
Handler_DeleteExpenditure_NoWriteHeader(m, r) ==
    IF r.method # "DELETE"
    THEN Answer(StatusMethodNotAllowed, "Method not allowed", <<>>, <<>>, <<>>, m)
    ELSE LET d == MemoryService_DeleteExpenditure(m, r.id)
             calls == << <<"DeleteExpenditure", d.err>> >>
         IN IF d.err = ErrExpenditureNotFound
            THEN Answer(StatusNotFound, d.err, <<>>, <<>>, calls, d.m)
            ELSE IF d.err # NoErr
            THEN Answer(StatusInternalServerError, d.err, <<>>, <<>>, calls, d.m)
            ELSE Answer(StatusOK, "", <<>>, <<>>, calls, d.m)

Handler_DeleteExpenditure(m, r) ==
    IF r.method # "DELETE"
    THEN Answer(StatusMethodNotAllowed, "Method not allowed", <<>>, <<>>, <<>>, m)
    ELSE LET d == MemoryService_DeleteExpenditure(m, r.id)
             calls == << <<"DeleteExpenditure", d.err>> >>
         IN IF d.err = ErrExpenditureNotFound
            THEN Answer(StatusNotFound, d.err, <<>>, <<>>, calls, d.m)
            ELSE IF d.err # NoErr
            THEN Answer(StatusInternalServerError, d.err, <<>>, <<>>, calls, d.m)
            ELSE Answer(StatusNoContent, "", <<>>, <<>>, calls, d.m)

\* a router that knows no 405: a method it has no handler for finds no route
Route_NoMethodCheck(r) ==
    IF r.path = "/expenditures"
    THEN CASE r.method = "GET" -> "GetAllExpenditures"
           [] r.method = "POST" -> "AddExpenditure"
           [] OTHER -> "NotFound"
    ELSE IF r.path = "/expenditures/"
    THEN CASE r.method = "GET" -> "GetExpenditureByID"
           [] r.method = "PUT" -> "UpdateExpenditure"
           [] r.method = "DELETE" -> "DeleteExpenditure"
           [] OTHER -> "NotFound"
    ELSE "NotFound"

\* ExpenditureRouter: which handler a request reaches
Route(r) ==
    IF r.path = "/expenditures"
    THEN CASE r.method = "GET" -> "GetAllExpenditures"
           [] r.method = "POST" -> "AddExpenditure"
           [] OTHER -> "MethodNotAllowed"
    ELSE IF r.path = "/expenditures/"
    THEN CASE r.method = "GET" -> "GetExpenditureByID"
           [] r.method = "PUT" -> "UpdateExpenditure"
           [] r.method = "DELETE" -> "DeleteExpenditure"
           [] OTHER -> "MethodNotAllowed"
    ELSE "NotFound"

\* ExpenditureRouter: the answer to request r; t, id, order are the readings of
\* time.Now(), uuid.New() and the map's iteration order the handler may use
ExpenditureRouter(m, r, t, id, order) ==
    CASE Route(r) = "GetAllExpenditures" -> Handler_GetAllExpenditures(m, r, order)
      [] Route(r) = "AddExpenditure" -> Handler_AddExpenditure(m, r, t, id)
      [] Route(r) = "GetExpenditureByID" -> Handler_GetExpenditureByID(m, r)
      [] Route(r) = "UpdateExpenditure" -> Handler_UpdateExpenditure(m, r, t)
      [] Route(r) = "DeleteExpenditure" -> Handler_DeleteExpenditure(m, r)
      [] Route(r) = "MethodNotAllowed" ->
            Answer(StatusMethodNotAllowed, "Method not allowed", <<>>, <<>>, <<>>, m)
      [] OTHER -> Answer(StatusNotFound, "404 page not found", <<>>, <<>>, <<>>, m)

----------------------------------------------------------------------------
(* The server on the in-memory store, one request served at a time *)

\* the identifiers clients put in a path
PathIds == {UUIDString(u) : u \in UUIDs} \cup {NotAUUID}

\* the record the store holds for a create or update with body b under identifier id
RecordOf(id, b) ==
    [ID |-> id, Description |-> b.Description, Amount |-> b.Amount, Date |-> b.Date,
     CategoryId |-> b.CategoryId]

\* the requests clients send
Requests ==
    {Request("POST", "/expenditures", NotAUUID, b) : b \in Bodies}
        \cup {Request(x, "/expenditures", NotAUUID, MalformedBody) : x \in Methods \ {"POST"}}
        \cup {Request("PUT", "/expenditures/", i, b) : i \in PathIds, b \in Bodies}
        \cup {Request(x, "/expenditures/", i, MalformedBody) : x \in Methods \ {"PUT"}, i \in PathIds}
        \cup {Request("GET", "/categories", NotAUUID, MalformedBody)}

\* the body of the scenario's POST, with category reference c
CoffeeBody(c) == Body("Coffee", 3500, 0, c)

ScenarioOff == [step |-> 0 - 1, key |-> NotAUUID, statuses |-> <<>>, category |-> NilUUID, fetched |-> <<>>]
ScenarioStart == [ScenarioOff EXCEPT !.step = 0]

\* the scenario after request r was answered a: one step further if r is its
\* next request, off otherwise
ScenarioNext(sc, r, a) ==
    IF sc.step = 0 /\ Route(r) = "AddExpenditure" /\ r.body = CoffeeBody(r.body.CategoryId)
    THEN [step |-> 1,
          key |-> IF a.status = StatusCreated THEN UUIDString(a.rec[1].ID) ELSE NotAUUID,
          statuses |-> <<a.status>>, category |-> r.body.CategoryId, fetched |-> <<>>]
    ELSE IF sc.step = 1 /\ sc.statuses[1] = StatusCreated
            /\ Route(r) = "GetExpenditureByID" /\ r.id = sc.key
    THEN [sc EXCEPT !.step = 2, !.statuses = Append(@, a.status), !.fetched = a.rec]
    ELSE IF sc.step = 2 /\ Route(r) = "DeleteExpenditure" /\ r.id = sc.key
    THEN [sc EXCEPT !.step = 3, !.statuses = Append(@, a.status)]
    ELSE IF sc.step = 3 /\ Route(r) = "GetExpenditureByID" /\ r.id = sc.key
    THEN [sc EXCEPT !.step = 4, !.statuses = Append(@, a.status)]
    ELSE ScenarioOff

\* posted after request r was answered a
PostedNext(p, r, a) ==
    IF Route(r) = "AddExpenditure" /\ a.status = StatusCreated
    THEN [p EXCEPT ![UUIDString(a.rec[1].ID)] = <<r.body>>]
    ELSE IF Route(r) \in {"UpdateExpenditure", "DeleteExpenditure"}
    THEN [p EXCEPT ![r.id] = <<>>]
    ELSE p

NoRequest == Request("", "", NotAUUID, MalformedBody)

\* a served request: the request, the clock reading when it was served, and the answer
Response(r, t, a) ==
    [req |-> r, at |-> t, status |-> a.status, msg |-> a.msg, rec |-> a.rec,
     list |-> a.list, calls |-> a.calls]

\* what a repository method returned: its error, and the record or list if any
Result(err, e, list) == [err |-> err, e |-> e, list |-> list]

NoCall == [op |-> "", id |-> NotAUUID, arg |-> <<>>,
           mem |-> Result(NoErr, <<>>, <<>>), db |-> Result(NoErr, <<>>, <<>>)]

vars == <<Expenditures, Categories, now, resp, posted, scenario, table, call, deleted,
          backend, pc, job, seed, live, latest, lk, heap, lpc, ljob, written, ctor>>

\* the variables of the concurrent server
concVars == <<backend, pc, job, seed>>

\* the variables of the store with its lock
lockVars == <<lk, heap, lpc, ljob, written>>

\* the history of the writes to the map
writeVars == <<live, latest>>

\* the variables the server's requests leave alone
repoVars == <<table, call, deleted, writeVars, concVars, lockVars, ctor>>

\* the variables direct repository calls leave alone
httpVars == <<Categories, now, resp, posted, scenario, concVars, lockVars, ctor>>

Procs == 1..NumProcs

\* no NewExpenditure call made yet
NoneMade == [args |-> <<>>, at |-> 0, id |-> NilUUID, err |-> NoErr, e |-> <<>>]

\* sync.RWMutex, unlocked: no writer (0), no reader
Unlocked == [w |-> 0, r |-> {}]

\* a caller of the locked store that has made no call yet
NoLockJob ==
    [call |-> [op |-> "", id |-> NotAUUID, rec |-> <<>>], acq |-> 0, rel |-> 0, ret |-> <<>>,
     seen |-> {}, ptrs |-> <<>>, part |-> <<>>, out |-> <<>>]

\* a goroutine that has no request yet
NoJob == [req |-> NoRequest, rec |-> <<>>, calls |-> <<>>, status |-> 0, msg |-> ""]

\* NewMemoryService, and a clock that started
Init ==
    /\ Expenditures = <<>>
    /\ Categories = setupCategories
    /\ now = 1
    /\ resp = Response(NoRequest, 1, Answer(0, "", <<>>, <<>>, <<>>, <<>>))
    /\ posted = [k \in IdStrings |-> <<>>]
    /\ scenario = ScenarioStart
    /\ table = {}
    /\ call = NoCall
    /\ deleted = {}
    /\ backend = "memory"
    /\ pc = [p \in Procs |-> "idle"]
    /\ job = [p \in Procs |-> NoJob]
    /\ seed = {}
    /\ live = 0
    /\ latest = [k \in IdStrings |-> <<>>]
    /\ lk = Unlocked
    /\ heap = <<>>
    /\ lpc = [p \in Procs |-> "idle"]
    /\ ljob = [p \in Procs |-> NoLockJob]
    /\ written = {}
    /\ ctor = NoneMade

\* the requests the router hands to each handler
ListRequests == {r \in Requests : Route(r) = "GetAllExpenditures"}
CreateRequests == {r \in Requests : Route(r) = "AddExpenditure"}
FetchRequests == {r \in Requests : Route(r) = "GetExpenditureByID"}
UpdateRequests == {r \in Requests : Route(r) = "UpdateExpenditure"}
DeleteRequests == {r \in Requests : Route(r) = "DeleteExpenditure"}
OtherRequests == {r \in Requests : Route(r) \in {"MethodNotAllowed", "NotFound"}}

\* the identifiers uuid.New() can return to the constructor serving POST r at
\* reading t: it is called only once every check has passed
NewIds(r, t) ==
    IF /\ ~r.body.malformed
       /\ NewExpenditure(r.body.Description, r.body.Amount, r.body.Date,
                          r.body.CategoryId, t, NilUUID).err = NoErr
    THEN UUIDs
    ELSE {NilUUID}

\* LoggingMiddleware around ExpenditureRouter: request r served to its end
Serve(r, id, order) ==
    LET a == ExpenditureRouter(Expenditures, r, now, id, order)
    IN /\ Expenditures' = a.m
       /\ UNCHANGED now
       /\ resp' = Response(r, now, a)
       /\ posted' = PostedNext(posted, r, a)
       /\ scenario' = ScenarioNext(scenario, r, a)
       /\ UNCHANGED <<Categories, repoVars>>

ServeList ==
    \E r \in ListRequests, order \in Orders(DOMAIN Expenditures) : Serve(r, NilUUID, order)

ServeCreate ==
    \E r \in CreateRequests : \E id \in NewIds(r, now) : Serve(r, id, <<>>)

ServeFetch ==
    \E r \in FetchRequests : Serve(r, NilUUID, <<>>)

ServeUpdate ==
    \E r \in UpdateRequests : Serve(r, NilUUID, <<>>)

ServeDelete ==
    \E r \in DeleteRequests : Serve(r, NilUUID, <<>>)

ServeOther ==
    \E r \in OtherRequests : Serve(r, NilUUID, <<>>)

\* time passes
Tick ==
    /\ now < MaxNow
    /\ now' = now + 1
    /\ UNCHANGED <<Expenditures, Categories, resp, posted, scenario, repoVars>>

Next == ServeList \/ ServeCreate \/ ServeFetch \/ ServeUpdate \/ ServeDelete \/ ServeOther \/ Tick

Spec == Init /\ [][Next]_vars

----------------------------------------------------------------------------
(* The constructor alone: NewExpenditure called with each description,      *)
(* amount, date and category reference, at each reading of the clock.       *)

\* the arguments callers pass: description empty or not; amount negative, zero
\* or positive; every date from before the clock started to after its last
\* reading; category reference absent or present
NewArguments ==
    {Body(d, a, t, c) : d \in {"", "Coffee"}, a \in {0 - 5000, 0, 3500},
                        t \in 0..(MaxNow + 1), c \in {NilUUID, 100 + 1}}

Construct ==
    \E b \in NewArguments, id \in UUIDs :
        LET n == NewExpenditure(b.Description, b.Amount, b.Date, b.CategoryId, now, id)
        IN /\ ctor' = [args |-> <<b>>, at |-> now, id |-> id, err |-> n.err, e |-> n.e]
           /\ UNCHANGED <<Expenditures, Categories, now, resp, posted, scenario, table, call,
                          deleted, writeVars, concVars, lockVars>>

NextNew == Construct \/ Tick

SpecNew == Init /\ [][NextNew]_vars

----------------------------------------------------------------------------
(* The two stores side by side: every repository call is made on the        *)
(* in-memory store and on the database store, one call at a time.           *)

\* the records callers pass: two that creation accepts and that differ in every
\* field, and one without category reference, as the update handler builds it
RepoRecords ==
    {RecordOf(u, b) : u \in UUIDs,
                      b \in {Body("Coffee", 3500, 0, 100 + 1),
                              Body("Tea", 1005, MaxNow, UnknownCategory),
                              Body("Coffee", 3500, 0, NilUUID)}}

RepoAdd ==
    \E e \in RepoRecords :
        LET a == MemoryService_AddExpenditure(Expenditures, e)
            d == DBService_AddExpenditure(table, e)
        IN /\ Expenditures' = a.m
           /\ table' = d.tbl
           /\ call' = [op |-> "AddExpenditure", id |-> UUIDString(e.ID), arg |-> <<e>>,
                       mem |-> Result(a.err, <<>>, <<>>), db |-> Result(d.err, <<>>, <<>>)]
           /\ deleted' = IF a.err = NoErr THEN deleted \ {UUIDString(e.ID)} ELSE deleted
           /\ live' = IF a.err = NoErr THEN live + 1 ELSE live
           /\ latest' = IF a.err = NoErr THEN [latest EXCEPT ![UUIDString(e.ID)] = <<e>>] ELSE latest
           /\ UNCHANGED httpVars

RepoGetByID ==
    \E id \in IdStrings :
        LET a == MemoryService_GetExpenditureByID(Expenditures, id)
            d == DBService_GetExpenditureByID(table, id)
        IN /\ Expenditures' = a.m
           /\ table' = d.tbl
           /\ call' = [op |-> "GetExpenditureByID", id |-> id, arg |-> <<>>,
                       mem |-> Result(a.err, a.e, <<>>), db |-> Result(d.err, d.e, <<>>)]
           /\ UNCHANGED <<deleted, writeVars, httpVars>>

RepoGetAll ==
    \E mo \in Orders(DOMAIN Expenditures), do \in Orders(table) :
        LET a == MemoryService_GetAllExpenditures(Expenditures, mo)
            d == DBService_GetAllExpenditures(table, do)
        IN /\ Expenditures' = a.m
           /\ table' = d.tbl
           /\ call' = [op |-> "GetAllExpenditures", id |-> NotAUUID, arg |-> <<>>,
                       mem |-> Result(a.err, <<>>, a.list), db |-> Result(d.err, <<>>, d.list)]
           /\ UNCHANGED <<deleted, writeVars, httpVars>>

RepoUpdate ==
    \E e \in RepoRecords :
        LET a == MemoryService_UpdateExpenditure(Expenditures, e)
            d == DBService_UpdateExpenditure(table, e)
        IN /\ Expenditures' = a.m
           /\ table' = d.tbl
           /\ call' = [op |-> "UpdateExpenditure", id |-> UUIDString(e.ID), arg |-> <<e>>,
                       mem |-> Result(a.err, <<>>, <<>>), db |-> Result(d.err, <<>>, <<>>)]
           /\ latest' = IF a.err = NoErr THEN [latest EXCEPT ![UUIDString(e.ID)] = <<e>>] ELSE latest
           /\ UNCHANGED <<deleted, live, httpVars>>

RepoDelete ==
    \E id \in IdStrings :
        LET a == MemoryService_DeleteExpenditure(Expenditures, id)
            d == DBService_DeleteExpenditure(table, id)
        IN /\ Expenditures' = a.m
           /\ table' = d.tbl
           /\ call' = [op |-> "DeleteExpenditure", id |-> id, arg |-> <<>>,
                       mem |-> Result(a.err, <<>>, <<>>), db |-> Result(d.err, <<>>, <<>>)]
           /\ deleted' = IF a.err = NoErr THEN deleted \cup {id} ELSE deleted
           /\ live' = IF a.err = NoErr THEN live - 1 ELSE live
           /\ latest' = IF a.err = NoErr THEN [latest EXCEPT ![id] = <<>>] ELSE latest
           /\ UNCHANGED httpVars

NextRepo == RepoAdd \/ RepoGetByID \/ RepoGetAll \/ RepoUpdate \/ RepoDelete

SpecRepo == Init /\ [][NextRepo]_vars

----------------------------------------------------------------------------
(* The server with requests served at the same time: one goroutine per      *)
(* request, on the store chosen at startup.  A goroutine takes one step per *)
(* repository call on the in-memory store (the call holds the lock from its *)
(* first statement to its last) and one step per SQL statement on the       *)
(* database store.  The requests start on a store that earlier requests     *)
(* left empty or holding one record.                                        *)

\* the requests of the concurrent clients: create, fetch, update, delete
ConcRequests ==
    {Request("POST", "/expenditures", NotAUUID, CoffeeBody(100 + 1))}
        \cup {Request("GET", "/expenditures/", UUIDString(u), MalformedBody) : u \in UUIDs}
        \cup {Request("PUT", "/expenditures/", UUIDString(u), Body("Tea", 1005, 0, 100 + 1)) : u \in UUIDs}
        \cup {Request("DELETE", "/expenditures/", UUIDString(u), MalformedBody) : u \in UUIDs}

\* the record an earlier POST of the scenario's body left under UUID 1, as each
\* store holds it
EarlierRecord == RecordOf(1, CoffeeBody(100 + 1))

\* main: the store is chosen by the -db flag before the server starts; the
\* requests of the run find it empty or holding EarlierRecord
InitConc ==
    /\ backend \in {"memory", "db"}
    /\ \E seeded \in BOOLEAN :
          /\ Expenditures = IF seeded /\ backend = "memory"
                            THEN MemoryService_AddExpenditure(<<>>, EarlierRecord).m
                            ELSE <<>>
          /\ table = IF seeded /\ backend = "db"
                     THEN DBService_AddExpenditure({}, EarlierRecord).tbl
                     ELSE {}
          /\ seed = IF seeded THEN {EarlierRecord.ID} ELSE {}
    /\ Categories = setupCategories
    /\ now = 1
    /\ resp = Response(NoRequest, 1, Answer(0, "", <<>>, <<>>, <<>>, <<>>))
    /\ posted = [k \in IdStrings |-> <<>>]
    /\ scenario = ScenarioStart
    /\ call = NoCall
    /\ deleted = {}
    /\ pc = [p \in Procs |-> "idle"]
    /\ job = [p \in Procs |-> NoJob]
    /\ live = 0
    /\ latest = [k \in IdStrings |-> <<>>]
    /\ lk = Unlocked
    /\ heap = <<>>
    /\ lpc = [p \in Procs |-> "idle"]
    /\ ljob = [p \in Procs |-> NoLockJob]
    /\ written = {}
    /\ ctor = NoneMade

\* goroutine p goes to label with its job changed to j
Goto(p, label, j) ==
    /\ pc' = [pc EXCEPT ![p] = label]
    /\ job' = [job EXCEPT ![p] = j]

\* goroutine p writes its answer
Reply(p, status, msg, calls) ==
    Goto(p, "done", [job[p] EXCEPT !.status = status, !.msg = msg, !.calls = calls])

\* the router hands a request to its handler; AddExpenditure decodes the body
\* and builds the record before it calls the store
Start(p) ==
    /\ pc[p] = "idle"
    /\ \E r \in ConcRequests, id \in UUIDs :
          LET j == [NoJob EXCEPT !.req = r]
          IN CASE Route(r) = "AddExpenditure" ->
                    LET n == NewExpenditure(r.body.Description, r.body.Amount, r.body.Date,
                                            r.body.CategoryId, now, id)
                    IN IF r.body.malformed
                       THEN Goto(p, "done", [j EXCEPT !.status = StatusBadRequest,
                                                      !.msg = "Invalid request body"])
                       ELSE IF n.err # NoErr
                       THEN Goto(p, "done", [j EXCEPT !.status = StatusBadRequest, !.msg = n.err])
                       ELSE Goto(p, "add", [j EXCEPT !.rec = n.e])
               [] Route(r) = "GetExpenditureByID" -> Goto(p, "get", j)
               [] Route(r) = "UpdateExpenditure" -> Goto(p, "put_get", j)
               [] Route(r) = "DeleteExpenditure" -> Goto(p, "delete", j)
    /\ UNCHANGED <<Expenditures, table, backend, seed, Categories, now, resp, posted, scenario,
                   call, deleted, writeVars, lockVars, ctor>>

\* the frame of a step of a handler
HandlerFrame ==
    UNCHANGED <<backend, seed, Categories, now, resp, posted, scenario, call, deleted,
                writeVars, lockVars, ctor>>

\* AddExpenditure calls service.AddExpenditure: the whole call on the map, the
\* existence check on the table
StepAdd(p) ==
    /\ pc[p] = "add"
    /\ IF backend = "memory"
       THEN LET a == MemoryService_AddExpenditure(Expenditures, job[p].rec[1])
                calls == Append(job[p].calls, <<"AddExpenditure", a.err>>)
            IN /\ Expenditures' = a.m
               /\ IF a.err # NoErr
                  THEN Reply(p, StatusInternalServerError, a.err, calls)
                  ELSE Reply(p, StatusCreated, "", calls)
               /\ UNCHANGED table
       ELSE LET c == DBService_AddExpenditure_Check(table, job[p].rec[1])
                calls == Append(job[p].calls, <<"AddExpenditure", c.err>>)
            IN /\ table' = c.tbl
               /\ IF c.done
                  THEN Reply(p, StatusInternalServerError, c.err, calls)
                  ELSE Goto(p, "add_insert", job[p])
               /\ UNCHANGED Expenditures
    /\ HandlerFrame

\* DBService.AddExpenditure reaches its INSERT
StepAddInsert(p) ==
    /\ pc[p] = "add_insert"
    /\ LET w == DBService_AddExpenditure_Write(table, job[p].rec[1])
           calls == Append(job[p].calls, <<"AddExpenditure", w.err>>)
       IN /\ table' = w.tbl
          /\ IF w.err # NoErr
             THEN Reply(p, StatusInternalServerError, w.err, calls)
             ELSE Reply(p, StatusCreated, "", calls)
    /\ UNCHANGED Expenditures
    /\ HandlerFrame

\* service.GetExpenditureByID on the store in use
ServiceGet(id) ==
    IF backend = "memory"
    THEN MemoryService_GetExpenditureByID(Expenditures, id)
    ELSE DBService_GetExpenditureByID(table, id)

\* GetExpenditureByID calls service.GetExpenditureByID
StepGet(p) ==
    /\ pc[p] = "get"
    /\ LET g == ServiceGet(job[p].req.id)
           calls == Append(job[p].calls, <<"GetExpenditureByID", g.err>>)
       IN IF g.err = ErrExpenditureNotFound
          THEN Reply(p, StatusNotFound, g.err, calls)
          ELSE IF g.err # NoErr
          THEN Reply(p, StatusInternalServerError, g.err, calls)
          ELSE Goto(p, "done", [job[p] EXCEPT !.status = StatusOK, !.rec = g.e, !.calls = calls])
    /\ UNCHANGED <<Expenditures, table>>
    /\ HandlerFrame

\* UpdateExpenditure checks that the id exists, then decodes and validates
\* the body, parses the id and builds the record
StepPutGet(p) ==
    /\ pc[p] = "put_get"
    /\ LET r == job[p].req
           g == ServiceGet(r.id)
           calls == Append(job[p].calls, <<"GetExpenditureByID", g.err>>)
           u == UUIDParse(r.id)
       IN IF g.err = ErrExpenditureNotFound
          THEN Reply(p, StatusNotFound, g.err, calls)
          ELSE IF g.err # NoErr
          THEN Reply(p, StatusInternalServerError, g.err, calls)
          ELSE IF r.body.malformed
          THEN Reply(p, StatusBadRequest, "Invalid request body", calls)
          ELSE IF r.body.Description = ""
          THEN Reply(p, StatusBadRequest, ErrExpenditureDescriptionEmpty, calls)
          ELSE IF r.body.Amount <= 0
          THEN Reply(p, StatusBadRequest, ErrInvalidExpenditureAmount, calls)
          ELSE IF r.body.Date > now
          THEN Reply(p, StatusBadRequest, ErrExpenditureFutureDate, calls)
          ELSE IF u.err # NoErr
          THEN Reply(p, StatusBadRequest, "Invalid UUID", calls)
          ELSE Goto(p, "put_update",
                    [job[p] EXCEPT !.calls = calls,
                                   !.rec = <<[ID |-> u.uuid, Description |-> r.body.Description,
                                              Amount |-> r.body.Amount, Date |-> r.body.Date,
                                              CategoryId |-> NilUUID]>>])
    /\ UNCHANGED <<Expenditures, table>>
    /\ HandlerFrame

\* UpdateExpenditure calls service.UpdateExpenditure: the whole call on the
\* map, the existence check on the table
StepPutUpdate(p) ==
    /\ pc[p] = "put_update"
    /\ IF backend = "memory"
       THEN LET u == MemoryService_UpdateExpenditure(Expenditures, job[p].rec[1])
                calls == Append(job[p].calls, <<"UpdateExpenditure", u.err>>)
            IN /\ Expenditures' = u.m
               /\ IF u.err # NoErr
                  THEN Reply(p, StatusInternalServerError, u.err, calls)
                  ELSE Reply(p, StatusOK, "", calls)
               /\ UNCHANGED table
       ELSE LET c == DBService_UpdateExpenditure_Check(table, job[p].rec[1])
                calls == Append(job[p].calls, <<"UpdateExpenditure", c.err>>)
            IN /\ table' = c.tbl
               /\ IF c.done
                  THEN Reply(p, StatusInternalServerError, c.err, calls)
                  ELSE Goto(p, "put_update_write", job[p])
               /\ UNCHANGED Expenditures
    /\ HandlerFrame

\* DBService.UpdateExpenditure reaches its UPDATE
StepPutUpdateWrite(p) ==
    /\ pc[p] = "put_update_write"
    /\ LET w == DBService_UpdateExpenditure_Write(table, job[p].rec[1])
           calls == Append(job[p].calls, <<"UpdateExpenditure", w.err>>)
       IN /\ table' = w.tbl
          /\ IF w.err # NoErr
             THEN Reply(p, StatusInternalServerError, w.err, calls)
             ELSE Reply(p, StatusOK, "", calls)
    /\ UNCHANGED Expenditures
    /\ HandlerFrame

\* what DeleteExpenditure answers to the error of service.DeleteExpenditure
ReplyDelete(p, err, calls) ==
    IF err = ErrExpenditureNotFound
    THEN Reply(p, StatusNotFound, err, calls)
    ELSE IF err # NoErr
    THEN Reply(p, StatusInternalServerError, err, calls)
    ELSE Reply(p, StatusNoContent, "", calls)

\* DeleteExpenditure calls service.DeleteExpenditure: the whole call on the
\* map, the parse and the existence check on the table
StepDelete(p) ==
    /\ pc[p] = "delete"
    /\ IF backend = "memory"
       THEN LET d == MemoryService_DeleteExpenditure(Expenditures, job[p].req.id)
            IN /\ Expenditures' = d.m
               /\ ReplyDelete(p, d.err, Append(job[p].calls, <<"DeleteExpenditure", d.err>>))
               /\ UNCHANGED table
       ELSE LET c == DBService_DeleteExpenditure_Check(table, job[p].req.id)
            IN /\ table' = c.tbl
               /\ IF c.done
                  THEN ReplyDelete(p, c.err, Append(job[p].calls, <<"DeleteExpenditure", c.err>>))
                  ELSE Goto(p, "delete_write", job[p])
               /\ UNCHANGED Expenditures
    /\ HandlerFrame

\* DBService.DeleteExpenditure reaches its DELETE
StepDeleteWrite(p) ==
    /\ pc[p] = "delete_write"
    /\ LET w == DBService_DeleteExpenditure_Write(table, job[p].req.id)
       IN /\ table' = w.tbl
          /\ ReplyDelete(p, w.err, Append(job[p].calls, <<"DeleteExpenditure", w.err>>))
    /\ UNCHANGED Expenditures
    /\ HandlerFrame

NextConc ==
    \E p \in Procs :
        \/ Start(p)
        \/ StepAdd(p)
        \/ StepAddInsert(p)
        \/ StepGet(p)
        \/ StepPutGet(p)
        \/ StepPutUpdate(p)
        \/ StepPutUpdateWrite(p)
        \/ StepDelete(p)
        \/ StepDeleteWrite(p)

SpecConc == InitConc /\ [][NextConc]_vars

----------------------------------------------------------------------------
(* MemoryService with its lock, statement by statement.  The map holds      *)
(* pointers: Expenditures maps a key to the address of a domain.Expenditure *)
(* object and heap gives the fields of each object.  (In the specifications *)
(* above a pointer stands for the record it points to.)  Each caller makes  *)
(* one call; a caller of get-by-id or get-all then encodes what it got,     *)
(* reading the fields through the pointers after the method has returned.   *)
(* The object a caller passes to add or update is at the address of the     *)
(* caller's own number; address 0 holds the record an earlier request left. *)

\* m.Lock() that does not wait for the readers to leave
CanLock_IgnoresReaders(l) == l.w = 0

\* m.Lock() returns: no writer and no reader holds the lock
CanLock(l) == l.w = 0 /\ l.r = {}

\* m.RLock() returns: no writer holds the lock and none is waiting in Lock()
CanRLock(l, waiting) == l.w = 0 /\ waiting = {}

\* a method that unlocks by hand on its last line only: an early return leaves
\* the lock held
ReturnPath_NoDefer(early) == IF early THEN "done" ELSE "Unlock"

\* return: the deferred m.Unlock() / m.RUnlock() runs on every return, early or not
ReturnPath(early) == "Unlock"

\* an update that copies the fields into the object the map already points to
StoreUpdate_InPlace(m, h, id, ptr) == [m |-> m, h |-> [h EXCEPT ![m[id]] = h[ptr]]]

\* m.Expenditures[id] = expenditure: the map points to the caller's object
StoreUpdate(m, h, id, ptr) == [m |-> MapPut(m, id, ptr), h |-> h]

\* the identifiers the calls on the locked store name: the one of the earlier
\* record and one other
LockUUIDs == {EarlierRecord.ID, NumUUIDs}

\* the calls made on the locked store: add of the scenario's record, update as
\* the update handler builds it (another description, amount and category),
\* get-by-id, delete, get-all
LockCalls ==
    {[op |-> "AddExpenditure", id |-> UUIDString(u), rec |-> <<RecordOf(u, CoffeeBody(100 + 1))>>] : u \in LockUUIDs}
        \cup {[op |-> "UpdateExpenditure", id |-> UUIDString(u),
               rec |-> <<RecordOf(u, Body("Tea", 1005, 0, NilUUID))>>] : u \in LockUUIDs}
        \cup {[op |-> "GetExpenditureByID", id |-> UUIDString(u), rec |-> <<>>] : u \in LockUUIDs}
        \cup {[op |-> "DeleteExpenditure", id |-> UUIDString(u), rec |-> <<>>] : u \in LockUUIDs}
        \cup {[op |-> "GetAllExpenditures", id |-> NotAUUID, rec |-> <<>>]}

\* the methods that take the exclusive lock
Writers == {"AddExpenditure", "UpdateExpenditure", "DeleteExpenditure"}

\* the callers waiting in m.Lock()
WaitingWriters == {p \in Procs : lpc[p] = "Lock"}

\* NewMemoryService, and the map as earlier requests left it: empty, or
\* holding EarlierRecord
InitLock ==
    /\ \E seeded \in BOOLEAN :
          /\ Expenditures = IF seeded THEN MapPut(<<>>, UUIDString(EarlierRecord.ID), 0) ELSE <<>>
          /\ heap = IF seeded THEN MapPut(<<>>, 0, EarlierRecord) ELSE <<>>
          /\ written = IF seeded THEN {EarlierRecord} ELSE {}
    /\ lk = Unlocked
    /\ lpc = [p \in Procs |-> "idle"]
    /\ ljob = [p \in Procs |-> NoLockJob]
    /\ Categories = setupCategories
    /\ now = 1
    /\ resp = Response(NoRequest, 1, Answer(0, "", <<>>, <<>>, <<>>, <<>>))
    /\ posted = [k \in IdStrings |-> <<>>]
    /\ scenario = ScenarioStart
    /\ table = {}
    /\ call = NoCall
    /\ deleted = {}
    /\ backend = "memory"
    /\ pc = [p \in Procs |-> "idle"]
    /\ job = [p \in Procs |-> NoJob]
    /\ seed = {}
    /\ live = 0
    /\ latest = [k \in IdStrings |-> <<>>]
    /\ ctor = NoneMade

\* what the steps of the locked store leave alone
LockFrame ==
    UNCHANGED <<Categories, now, resp, posted, scenario, table, call, deleted, writeVars,
                concVars, ctor>>

\* caller p goes to label with its job changed to j
LGoto(p, label, j) ==
    /\ lpc' = [lpc EXCEPT ![p] = label]
    /\ ljob' = [ljob EXCEPT ![p] = j]

\* a handler calls a method of the store; the method runs up to its m.Lock()
\* or m.RLock()
LCall(p) ==
    /\ lpc[p] = "idle"
    /\ \E c \in LockCalls :
          /\ LGoto(p, IF c.op \in Writers THEN "Lock" ELSE "RLock", [NoLockJob EXCEPT !.call = c])
          /\ heap' = IF c.rec # <<>> THEN MapPut(heap, p, c.rec[1]) ELSE heap
          /\ written' = IF c.rec # <<>> THEN written \cup {c.rec[1]} ELSE written
    /\ UNCHANGED <<Expenditures, lk>>
    /\ LockFrame

\* m.Lock() returns
LLock(p) ==
    /\ lpc[p] = "Lock"
    /\ CanLock(lk)
    /\ lk' = [lk EXCEPT !.w = p]
    /\ LGoto(p, "cs", [ljob[p] EXCEPT !.acq = @ + 1])
    /\ UNCHANGED <<Expenditures, heap, written>>
    /\ LockFrame

\* m.RLock() returns
LRLock(p) ==
    /\ lpc[p] = "RLock"
    /\ CanRLock(lk, WaitingWriters)
    /\ lk' = [lk EXCEPT !.r = @ \cup {p}]
    /\ LGoto(p, "cs", [ljob[p] EXCEPT !.acq = @ + 1])
    /\ UNCHANGED <<Expenditures, heap, written>>
    /\ LockFrame

\* AddExpenditure: if _, exists := m.Expenditures[expenditure.ID.String()]; exists
LAddCheck(p) ==
    /\ lpc[p] = "cs"
    /\ ljob[p].call.op = "AddExpenditure"
    /\ IF UUIDString(heap[p].ID) \in DOMAIN Expenditures
       THEN LGoto(p, ReturnPath(TRUE), [ljob[p] EXCEPT !.ret = <<ErrExpenditureAlreadyExists>>])
       ELSE LGoto(p, "write", ljob[p])
    /\ UNCHANGED <<Expenditures, heap, lk, written>>
    /\ LockFrame

\* AddExpenditure: m.Expenditures[expenditure.ID.String()] = expenditure; return nil
LAddWrite(p) ==
    /\ lpc[p] = "write"
    /\ ljob[p].call.op = "AddExpenditure"
    /\ Expenditures' = MapPut(Expenditures, UUIDString(heap[p].ID), p)
    /\ LGoto(p, ReturnPath(FALSE), [ljob[p] EXCEPT !.ret = <<NoErr>>])
    /\ UNCHANGED <<heap, lk, written>>
    /\ LockFrame

\* UpdateExpenditure: id := expenditure.ID.String(); if _, exists := m.Expenditures[id]; !exists
LUpdateCheck(p) ==
    /\ lpc[p] = "cs"
    /\ ljob[p].call.op = "UpdateExpenditure"
    /\ IF UUIDString(heap[p].ID) \notin DOMAIN Expenditures
       THEN LGoto(p, ReturnPath(TRUE), [ljob[p] EXCEPT !.ret = <<ErrExpenditureNotFound>>])
       ELSE LGoto(p, "write", ljob[p])
    /\ UNCHANGED <<Expenditures, heap, lk, written>>
    /\ LockFrame

\* UpdateExpenditure: m.Expenditures[id] = expenditure; return nil
LUpdateWrite(p) ==
    /\ lpc[p] = "write"
    /\ ljob[p].call.op = "UpdateExpenditure"
    /\ LET s == StoreUpdate(Expenditures, heap, UUIDString(heap[p].ID), p)
       IN Expenditures' = s.m /\ heap' = s.h
    /\ LGoto(p, ReturnPath(FALSE), [ljob[p] EXCEPT !.ret = <<NoErr>>])
    /\ UNCHANGED <<lk, written>>
    /\ LockFrame

\* DeleteExpenditure: if _, exists := m.Expenditures[id]; !exists
LDeleteCheck(p) ==
    /\ lpc[p] = "cs"
    /\ ljob[p].call.op = "DeleteExpenditure"
    /\ IF ljob[p].call.id \notin DOMAIN Expenditures
       THEN LGoto(p, ReturnPath(TRUE), [ljob[p] EXCEPT !.ret = <<ErrExpenditureNotFound>>])
       ELSE LGoto(p, "write", ljob[p])
    /\ UNCHANGED <<Expenditures, heap, lk, written>>
    /\ LockFrame

\* DeleteExpenditure: delete(m.Expenditures, id); return nil
LDeleteWrite(p) ==
    /\ lpc[p] = "write"
    /\ ljob[p].call.op = "DeleteExpenditure"
    /\ Expenditures' = MapDelete(Expenditures, ljob[p].call.id)
    /\ LGoto(p, ReturnPath(FALSE), [ljob[p] EXCEPT !.ret = <<NoErr>>])
    /\ UNCHANGED <<heap, lk, written>>
    /\ LockFrame

\* GetExpenditureByID: expenditure, exists := m.Expenditures[id]; return
LGet(p) ==
    /\ lpc[p] = "cs"
    /\ ljob[p].call.op = "GetExpenditureByID"
    /\ IF ljob[p].call.id \notin DOMAIN Expenditures
       THEN LGoto(p, ReturnPath(TRUE), [ljob[p] EXCEPT !.ret = <<ErrExpenditureNotFound>>])
       ELSE LGoto(p, ReturnPath(FALSE),
                  [ljob[p] EXCEPT !.ret = <<NoErr>>, !.ptrs = <<Expenditures[ljob[p].call.id]>>])
    /\ UNCHANGED <<Expenditures, heap, lk, written>>
    /\ LockFrame

\* GetAllExpenditures: one iteration of the range over the map
LGetAllNext(p) ==
    /\ lpc[p] = "cs"
    /\ ljob[p].call.op = "GetAllExpenditures"
    /\ \E k \in DOMAIN Expenditures \ ljob[p].seen :
          LGoto(p, "cs", [ljob[p] EXCEPT !.seen = @ \cup {k}, !.ptrs = Append(@, Expenditures[k])])
    /\ UNCHANGED <<Expenditures, heap, lk, written>>
    /\ LockFrame

\* GetAllExpenditures: the range is over; return expenditures, nil
LGetAllReturn(p) ==
    /\ lpc[p] = "cs"
    /\ ljob[p].call.op = "GetAllExpenditures"
    /\ DOMAIN Expenditures \ ljob[p].seen = {}
    /\ LGoto(p, ReturnPath(FALSE), [ljob[p] EXCEPT !.ret = <<NoErr>>])
    /\ UNCHANGED <<Expenditures, heap, lk, written>>
    /\ LockFrame

\* the deferred m.Unlock() or m.RUnlock(); the method has returned, and the
\* handler of a read that got records goes on to encode them
LUnlock(p) ==
    /\ lpc[p] = "Unlock"
    /\ lk' = IF lk.w = p THEN [lk EXCEPT !.w = 0] ELSE [lk EXCEPT !.r = @ \ {p}]
    /\ LGoto(p, IF ljob[p].ptrs # <<>> THEN "encode" ELSE "done", [ljob[p] EXCEPT !.rel = @ + 1])
    /\ UNCHANGED <<Expenditures, heap, written>>
    /\ LockFrame

\* json.Encode reads the first fields of the next record through its pointer
LEncodeFirst(p) ==
    /\ lpc[p] = "encode"
    /\ ljob[p].part = <<>>
    /\ LET e == heap[ljob[p].ptrs[Len(ljob[p].out) + 1]]
       IN LGoto(p, "encode", [ljob[p] EXCEPT !.part = <<[ID |-> e.ID, Description |-> e.Description]>>])
    /\ UNCHANGED <<Expenditures, heap, lk, written>>
    /\ LockFrame

\* json.Encode reads the other fields of that record
LEncodeRest(p) ==
    /\ lpc[p] = "encode"
    /\ ljob[p].part # <<>>
    /\ LET e == heap[ljob[p].ptrs[Len(ljob[p].out) + 1]]
           read == [ID |-> ljob[p].part[1].ID, Description |-> ljob[p].part[1].Description,
                    Amount |-> e.Amount, Date |-> e.Date, CategoryId |-> e.CategoryId]
           out == Append(ljob[p].out, read)
       IN LGoto(p, IF Len(out) = Len(ljob[p].ptrs) THEN "done" ELSE "encode",
                [ljob[p] EXCEPT !.part = <<>>, !.out = out])
    /\ UNCHANGED <<Expenditures, heap, lk, written>>
    /\ LockFrame

\* the steps of caller p
LockStep(p) ==
    \/ LCall(p)
    \/ LLock(p)
    \/ LRLock(p)
    \/ LAddCheck(p)
    \/ LAddWrite(p)
    \/ LUpdateCheck(p)
    \/ LUpdateWrite(p)
    \/ LDeleteCheck(p)
    \/ LDeleteWrite(p)
    \/ LGet(p)
    \/ LGetAllNext(p)
    \/ LGetAllReturn(p)
    \/ LUnlock(p)
    \/ LEncodeFirst(p)
    \/ LEncodeRest(p)

NextLock == \E p \in Procs : LockStep(p)

SpecLock == InitLock /\ [][NextLock]_vars

\* the scheduler lets every goroutine that can run take its next step
FairSpecLock == SpecLock /\ \A p \in Procs : WF_vars(LockStep(p))

----------------------------------------------------------------------------
(* Properties of the server on the in-memory store (Spec) *)

\* body b passes every rule of creation at clock reading t
ValidBody(b, t) ==
    /\ ~b.malformed
    /\ b.Description # ""
    /\ b.Amount > 0
    /\ b.Date <= t
    /\ b.CategoryId # NilUUID

\* the step served a request that route answers
Served(route) == resp' # resp /\ Route(resp'.req) = route

(* C1: a POST answered 201 with id i, then (no PUT or DELETE of i in between) a
   GET of i: the GET is answered 200 with id i and the description, amount, date
   and category reference that were posted. *)
C1_CreateThenFetch ==
    \A k \in IdStrings :
        (Route(resp.req) = "GetExpenditureByID" /\ resp.req.id = k /\ posted[k] # <<>>)
            => /\ resp.status = StatusOK
               /\ Len(resp.rec) = 1
               /\ UUIDString(resp.rec[1].ID) = k
               /\ resp.rec[1] = RecordOf(resp.rec[1].ID, posted[k][1])

C1_Witness ==
    \E k \in IdStrings :
        /\ Route(resp.req) = "GetExpenditureByID" /\ resp.req.id = k
        /\ posted[k] # <<>> /\ posted[k][1].Description = "Tea"
        /\ resp.status = StatusOK

(* C4 as claimed: a PUT of an id that is not stored is answered 404 and changes
   nothing; a PUT of a stored id with a valid body is answered 200 and the record
   then stored has the same id and the body's description, amount, date and
   category reference. *)
C4_UpdateReplacesAllFields ==
    [][Served("UpdateExpenditure") =>
        LET k == resp'.req.id
            b == resp'.req.body
        IN IF k \notin DOMAIN Expenditures
           THEN resp'.status = StatusNotFound /\ Expenditures' = Expenditures
           ELSE ValidBody(b, resp'.at) =>
                    /\ resp'.status = StatusOK
                    /\ k \in DOMAIN Expenditures'
                    /\ Expenditures'[k] = RecordOf(Expenditures[k].ID, b)]_vars

\* the messages of the rules among the first three that body b breaks at reading t
BrokenRules(b, t) ==
    {ErrExpenditureDescriptionEmpty : x \in {1} \cap {IF b.Description = "" THEN 1 ELSE 0}}
        \cup {ErrInvalidExpenditureAmount : x \in {1} \cap {IF b.Amount <= 0 THEN 1 ELSE 0}}
        \cup {ErrExpenditureFutureDate : x \in {1} \cap {IF b.Date > t THEN 1 ELSE 0}}

(* C5: a POST whose amount is <= 0, whose description is empty or whose date is
   after the current time is answered 400 with the message of a rule it breaks,
   makes no AddExpenditure call, and leaves the store as it was. *)
C5_InvalidCreateRejected ==
    [][(Served("AddExpenditure") /\ ~resp'.req.body.malformed
            /\ BrokenRules(resp'.req.body, resp'.at) # {})
        => /\ resp'.status = StatusBadRequest
           /\ resp'.msg \in BrokenRules(resp'.req.body, resp'.at)
           /\ resp'.calls = <<>>
           /\ Expenditures' = Expenditures]_vars

C5_Witness ==
    /\ Route(resp.req) = "AddExpenditure"
    /\ resp.req.body = Body("Coffee", 0 - 5000, 0, 100 + 1)
    /\ resp.status = StatusBadRequest
    /\ resp.msg = ErrInvalidExpenditureAmount
    /\ Expenditures # <<>>

\* the statuses the scenario is said to produce
ScenarioStatuses == <<StatusCreated, StatusOK, StatusNoContent, StatusNotFound>>

(* C6 as claimed: from the empty store, POST {Coffee, 3.5, 2024-01-01} with no
   other field, GET of the returned id, DELETE of it, GET of it are answered
   201, 200, 204, 404. *)
C6_ScenarioWithoutCategory ==
    (scenario.step >= 1 /\ scenario.category = NilUUID)
        => scenario.statuses = SubSeq(ScenarioStatuses, 1, scenario.step)

(* C6 amended: that POST with no category reference is answered 400 with the
   category-empty message and nothing is stored; with a category reference
   added to the body, the four requests are answered 201, 200 (the record
   fetched has the fields posted), 204 and 404. *)
C6_Scenario ==
    scenario.step >= 1 =>
        IF scenario.category = NilUUID
        THEN /\ scenario.step = 1
             /\ scenario.statuses = <<StatusBadRequest>>
             /\ resp.msg = ErrExpenditureCategoryIdEmpty
             /\ Expenditures = <<>>
        ELSE /\ scenario.statuses = SubSeq(ScenarioStatuses, 1, scenario.step)
             /\ scenario.step >= 2 =>
                    /\ Len(scenario.fetched) = 1
                    /\ UUIDString(scenario.fetched[1].ID) = scenario.key
                    /\ scenario.fetched[1] =
                            RecordOf(scenario.fetched[1].ID, CoffeeBody(scenario.category))

C6_Witness == scenario.step = 4 /\ scenario.category # NilUUID

(* C9 as claimed: every stored expenditure that carries a category reference
   names a category of the store's category set. *)
C9_CategoryExists ==
    \A k \in DOMAIN Expenditures :
        Expenditures[k].CategoryId # NilUUID
            => UUIDString(Expenditures[k].CategoryId) \in DOMAIN Categories

(* C17 as claimed: after any sequence of POST, PUT and DELETE requests every
   stored record has a non-empty description, an amount > 0, a date not after
   the time it was stored (so not after the current time) and a non-empty
   category reference. *)
C17_StoredRecordsValid ==
    \A k \in DOMAIN Expenditures :
        /\ Expenditures[k].Description # ""
        /\ Expenditures[k].Amount > 0
        /\ Expenditures[k].Date <= now
        /\ Expenditures[k].CategoryId # NilUUID

\* the repository methods the answer in resp' called, in order
CalledOps == [i \in 1..Len(resp'.calls) |-> resp'.calls[i][1]]

(* C11: path and method alone decide the handler: on /expenditures GET lists and
   POST creates; on /expenditures/{id} GET fetches, PUT updates and DELETE
   deletes (each seen by the repository methods it calls and the statuses it
   answers); any other method on those paths is answered 405 and any other
   path 404, with no repository call and the store unchanged. *)
C11_RouterDispatch ==
    [][resp' # resp =>
        LET r == resp'.req
            item == r.path = "/expenditures/"
            coll == r.path = "/expenditures"
        IN CASE coll /\ r.method = "GET" ->
                    CalledOps = <<"GetAllExpenditures">> /\ resp'.status = StatusOK
             [] coll /\ r.method = "POST" ->
                    \/ CalledOps = <<>> /\ resp'.status = StatusBadRequest
                    \/ CalledOps = <<"AddExpenditure">>
                            /\ resp'.status \in {StatusCreated, StatusInternalServerError}
             [] item /\ r.method = "GET" ->
                    /\ CalledOps = <<"GetExpenditureByID">>
                    /\ resp'.status \in {StatusOK, StatusNotFound}
                    /\ Expenditures' = Expenditures
             [] item /\ r.method = "PUT" ->
                    \/ CalledOps = <<"GetExpenditureByID">>
                            /\ resp'.status \in {StatusNotFound, StatusBadRequest}
                    \/ CalledOps = <<"GetExpenditureByID", "UpdateExpenditure">>
             [] item /\ r.method = "DELETE" ->
                    /\ CalledOps = <<"DeleteExpenditure">>
                    /\ resp'.status \in {StatusNoContent, StatusNotFound}
             [] (coll \/ item) /\ r.method \notin {"GET", "POST", "PUT", "DELETE"} ->
                    /\ resp'.status = StatusMethodNotAllowed
                    /\ CalledOps = <<>>
                    /\ Expenditures' = Expenditures
             [] coll /\ r.method \in {"PUT", "DELETE"} ->
                    /\ resp'.status = StatusMethodNotAllowed
                    /\ CalledOps = <<>>
                    /\ Expenditures' = Expenditures
             [] item /\ r.method = "POST" ->
                    /\ resp'.status = StatusMethodNotAllowed
                    /\ CalledOps = <<>>
                    /\ Expenditures' = Expenditures
             [] OTHER ->
                    /\ resp'.status = StatusNotFound
                    /\ CalledOps = <<>>
                    /\ Expenditures' = Expenditures]_vars

C11_Witness ==
    /\ resp.req.path = "/expenditures/"
    /\ resp.req.method = "PATCH"
    /\ resp.status = StatusMethodNotAllowed
    /\ resp.calls = <<>>
    /\ Expenditures # <<>>

(* C20: the store holds exactly thirteen categories, with pairwise distinct ids,
   each filed under the text of its id with a non-empty name and color, and
   they are the categories it was constructed with, whatever requests were
   served. *)
C20_CategoriesFixed ==
    /\ Cardinality(DOMAIN Categories) = 13
    /\ \A k1, k2 \in DOMAIN Categories : Categories[k1].ID = Categories[k2].ID => k1 = k2
    /\ \A k \in DOMAIN Categories :
            /\ UUIDString(Categories[k].ID) = k
            /\ Categories[k].Name # ""
            /\ Categories[k].Color # ""
    /\ Categories = setupCategories

C20_Witness ==
    /\ resp.req.path = "/categories"
    /\ resp.status = StatusNotFound
    /\ Cardinality(DOMAIN Expenditures) = 2
    /\ \E k \in DOMAIN Expenditures : Expenditures[k].CategoryId = NilUUID
    /\ Cardinality(DOMAIN Categories) = 13

(* C21: a PUT of an id that is not stored is answered 404 whatever its body
   (one that does not decode, one with invalid fields), after the existence
   check alone; and a PUT answered anything but 200 leaves the store as it
   was. *)
C21_UpdateChecksExistenceFirst ==
    [][Served("UpdateExpenditure") =>
        /\ resp'.req.id \notin DOMAIN Expenditures
            => /\ resp'.status = StatusNotFound
               /\ resp'.calls = << <<"GetExpenditureByID", ErrExpenditureNotFound>> >>
        /\ resp'.status # StatusOK => Expenditures' = Expenditures]_vars

C21_Witness ==
    /\ Route(resp.req) = "UpdateExpenditure"
    /\ resp.req.body.malformed
    /\ resp.req.id \notin DOMAIN Expenditures
    /\ resp.req.id # NotAUUID
    /\ resp.status = StatusNotFound
    /\ Expenditures # <<>>

----------------------------------------------------------------------------
(* Properties of the constructor (SpecNew) *)

(* C18: NewExpenditure returns the error of the first check that fails, in the
   order description empty, amount <= 0, date after the current time, category
   reference absent; a date equal to the current time passes; when all four
   pass it returns no error and a record with the given description, amount,
   date and category reference and the identifier uuid.New() returned. *)
C18_FirstFailingCheck ==
    ctor.args # <<>> =>
        LET a == ctor.args[1]
        IN IF a.Description = ""
           THEN ctor.err = ErrExpenditureDescriptionEmpty /\ ctor.e = <<>>
           ELSE IF a.Amount <= 0
           THEN ctor.err = ErrInvalidExpenditureAmount /\ ctor.e = <<>>
           ELSE IF a.Date > ctor.at
           THEN ctor.err = ErrExpenditureFutureDate /\ ctor.e = <<>>
           ELSE IF a.CategoryId = NilUUID
           THEN ctor.err = ErrExpenditureCategoryIdEmpty /\ ctor.e = <<>>
           ELSE /\ ctor.err = NoErr
                /\ ctor.e = <<RecordOf(ctor.id, a)>>
                /\ ctor.id # NilUUID

C18_Witness ==
    /\ ctor.args # <<>>
    /\ ctor.args[1].Date = ctor.at
    /\ ctor.at = MaxNow
    /\ ctor.err = NoErr
    /\ Len(ctor.e) = 1

----------------------------------------------------------------------------
(* Properties of the repository (SpecRepo) *)

\* success, not-found, already-exists, or any other failure
Outcome(err) ==
    IF err \in {NoErr, ErrExpenditureNotFound, ErrExpenditureAlreadyExists} THEN err ELSE "failure"

\* the elements of a list
Elements(list) == {list[i] : i \in 1..Len(list)}

(* C3: on the in-memory store DeleteExpenditure of an id that is not stored
   returns not-found, and after a DeleteExpenditure of id i succeeded every
   get-by-id, update or delete of i returns not-found until i is added again. *)
C3_DeletedStaysGone ==
    [][/\ (call'.op = "DeleteExpenditure" /\ call'.id \notin DOMAIN Expenditures)
            => call'.mem.err = ErrExpenditureNotFound
       /\ (call'.op \in {"GetExpenditureByID", "UpdateExpenditure", "DeleteExpenditure"}
            /\ call'.id \in deleted)
            => call'.mem.err = ErrExpenditureNotFound]_vars

C3_Witness ==
    /\ call.op = "DeleteExpenditure"
    /\ call.id \in deleted
    /\ call.mem.err = ErrExpenditureNotFound
    /\ Expenditures # <<>>

(* C8 as claimed: the same sequence of repository calls on the two stores, both
   empty at first: at every step they return the same outcome, and get-by-id
   and get-all return records with the same fields. *)
C8_StoresAgree ==
    /\ Outcome(call.mem.err) = Outcome(call.db.err)
    /\ call.mem.e = call.db.e
    /\ Elements(call.mem.list) = Elements(call.db.list)

(* C10: a failing add, update or delete and every get-by-id or get-all leave the
   map unchanged; a successful add, update or delete changes at most the entry
   of its own key. *)
C10_OneRecordOnly ==
    [][IF call'.mem.err # NoErr \/ call'.op \in {"GetExpenditureByID", "GetAllExpenditures"}
       THEN Expenditures' = Expenditures
       ELSE \A k \in (DOMAIN Expenditures \cup DOMAIN Expenditures') \ {call'.id} :
                /\ k \in DOMAIN Expenditures
                /\ k \in DOMAIN Expenditures'
                /\ Expenditures'[k] = Expenditures[k]]_vars

C10_Witness ==
    /\ call.op = "UpdateExpenditure"
    /\ call.mem.err = NoErr
    /\ Cardinality(DOMAIN Expenditures) = 2
    /\ \E k \in DOMAIN Expenditures : Expenditures[k].Description # call.arg[1].Description

(* C19: get-all on the in-memory store returns one entry per stored id: as many
   entries as successful adds minus successful deletes, with pairwise distinct
   ids, each equal to the record the last successful add or update of its id
   wrote; a get-all after a later change shows that change. *)
C19_GetAllIsCurrent ==
    call.op = "GetAllExpenditures" =>
        LET list == call.mem.list
        IN /\ call.mem.err = NoErr
           /\ Len(list) = live
           /\ \A i, j \in 1..Len(list) : list[i].ID = list[j].ID => i = j
           /\ \A i \in 1..Len(list) : latest[UUIDString(list[i].ID)] = <<list[i]>>

C19_Witness ==
    /\ call.op = "GetAllExpenditures"
    /\ Len(call.mem.list) = 1
    /\ deleted # {}
    /\ call.mem.list[1].Description = "Tea"
    /\ live = 1

(* C22: the record stored under key k of the map has the identifier whose text
   is k; an update leaves the keys of the map as they were and the identifier
   under each key as it was. *)
C22_KeyIsIdText ==
    [][/\ \A k \in DOMAIN Expenditures' : UUIDString(Expenditures'[k].ID) = k
       /\ call'.op = "UpdateExpenditure"
            => /\ DOMAIN Expenditures' = DOMAIN Expenditures
               /\ \A k \in DOMAIN Expenditures : Expenditures'[k].ID = Expenditures[k].ID]_vars

C22_Witness ==
    /\ call.op = "UpdateExpenditure"
    /\ call.mem.err = NoErr
    /\ live = 2
    /\ Expenditures[call.id] = call.arg[1]
    /\ \A k \in DOMAIN Expenditures : Expenditures[k].Description = "Tea"

----------------------------------------------------------------------------
(* Properties of the concurrent server (SpecConc) *)

\* the store in use holds a record with identifier id
Stored(id) ==
    IF backend = "memory"
    THEN UUIDString(id) \in DOMAIN Expenditures
    ELSE \E row \in table : row.id = id

\* no two records of a store carry the same identifier
UniqueIds ==
    /\ \A k1, k2 \in DOMAIN Expenditures :
            Expenditures[k1].ID = Expenditures[k2].ID => k1 = k2
    /\ \A r1, r2 \in table : r1.id = r2.id => r1 = r2

(* C2: in either store and in every interleaving, no two stored records carry
   the same identifier, and a step of AddExpenditure taken while its identifier
   is stored makes the call fail and changes no stored record. *)
C2_UniqueNeverOverwritten ==
    [][/\ UniqueIds'
       /\ \A p \in Procs :
            (pc[p] \in {"add", "add_insert"} /\ pc'[p] # pc[p] /\ Stored(job[p].rec[1].ID))
                => /\ pc'[p] = "done"
                   /\ job'[p].status = StatusInternalServerError
                   /\ job'[p].calls[Len(job'[p].calls)][2] # NoErr
                   /\ Expenditures' = Expenditures
                   /\ table' = table]_vars

C2_Witness ==
    /\ backend = "db"
    /\ \E p \in Procs :
          /\ pc[p] = "done"
          /\ job[p].calls = << <<"AddExpenditure", "error inserting expenditure">> >>
          /\ \E row \in table : row.id = job[p].rec[1].ID

\* the errors of the repository calls goroutine p made
CallErrors(p) == {job[p].calls[i][2] : i \in 1..Len(job[p].calls)}

(* C7 as claimed: for GET, PUT and DELETE of /expenditures/{id}, in every
   interleaving, a request one of whose repository calls reported not-found is
   answered 404, and 500 is answered only after a backend failure. *)
C7_NotFoundIs404 ==
    \A p \in Procs :
        (pc[p] = "done"
            /\ Route(job[p].req) \in {"GetExpenditureByID", "UpdateExpenditure", "DeleteExpenditure"})
            => /\ ErrExpenditureNotFound \in CallErrors(p) => job[p].status = StatusNotFound
               /\ job[p].status = StatusInternalServerError
                    => \E err \in CallErrors(p) : Outcome(err) = "failure"

\* the goroutines that have finished an AddExpenditure call for identifier id
AddersOf(id) ==
    {p \in Procs : /\ pc[p] = "done"
                   /\ Route(job[p].req) = "AddExpenditure"
                   /\ job[p].calls # <<>>
                   /\ job[p].rec[1].ID = id}

\* identifier id was not stored when the requests began and no request deletes it
FreshFor(id) ==
    /\ id \notin seed
    /\ \A p \in Procs : ~(Route(job[p].req) = "DeleteExpenditure" /\ job[p].req.id = UUIDString(id))

\* the error the only repository call of goroutine p returned
CallError(p) == job[p].calls[1][2]

(* C15 as claimed: of the AddExpenditure calls (two or more) made with one
   identifier that was not stored, on either store, exactly one returns success
   and every other returns the already-exists sentinel. *)
C15_OtherGetsAlreadyExists ==
    \A id \in UUIDs :
        (Cardinality(AddersOf(id)) >= 2 /\ FreshFor(id))
            => /\ Cardinality({p \in AddersOf(id) : CallError(p) = NoErr}) = 1
               /\ \A p \in AddersOf(id) :
                    CallError(p) \in {NoErr, ErrExpenditureAlreadyExists}

(* C15 amended: exactly one returns success; on the in-memory store every other
   returns the already-exists sentinel; on the database store every other
   returns the sentinel or, when its INSERT met the row of the winner, the
   error of the INSERT. *)
C15_OneAddWins ==
    \A id \in UUIDs :
        (Cardinality(AddersOf(id)) >= 2 /\ FreshFor(id))
            => /\ Cardinality({p \in AddersOf(id) : CallError(p) = NoErr}) = 1
               /\ \A p \in AddersOf(id) :
                    CallError(p) \in
                        IF backend = "memory"
                        THEN {NoErr, ErrExpenditureAlreadyExists}
                        ELSE {NoErr, ErrExpenditureAlreadyExists, "error inserting expenditure"}

C15_Witness ==
    \E id \in UUIDs :
        /\ backend = "db"
        /\ FreshFor(id)
        /\ Cardinality(AddersOf(id)) >= 2
        /\ \E p \in AddersOf(id) : CallError(p) = "error inserting expenditure"
        /\ \E p \in AddersOf(id) : CallError(p) = NoErr

\* goroutine p takes, on the database store, the step from label from
DBStep(p, from) == backend = "db" /\ pc[p] = from /\ pc'[p] # from

\* the error of the last repository call of goroutine p after the step
LastError(p) == job'[p].calls[Len(job'[p].calls)][2]

\* the table holds a row with the identifier goroutine p's request names
RowExists(p) == \E row \in table : UUIDString(row.id) = job[p].req.id

(* C16 as claimed: on the database store, when the UPDATE or DELETE statement of
   a call runs, the call returns success if a row with its id is in the table
   and not-found if none is. *)
C16_SuccessOnlyIfRowAtWrite ==
    [][\A p \in Procs :
        (DBStep(p, "put_update_write") \/ DBStep(p, "delete_write"))
            => /\ pc'[p] = "done"
               /\ LastError(p) = IF RowExists(p) THEN NoErr ELSE ErrExpenditureNotFound]_vars

(* C16 amended: on the database store a call returns not-found exactly when no
   row with its id is in the table at its SELECT EXISTS; once that check found
   the row, the UPDATE or DELETE statement runs and the call returns success
   whether or not the row is still in the table (so two concurrent deletes of
   one row can both succeed, and an update racing a delete can report success
   for a row that is gone). *)
C16_SuccessIfRowAtCheck ==
    [][\A p \in Procs :
        /\ (DBStep(p, "put_update") \/ DBStep(p, "delete"))
            => /\ table' = table
               /\ IF RowExists(p)
                  THEN pc'[p] \in {"put_update_write", "delete_write"}
                  ELSE pc'[p] = "done" /\ LastError(p) = ErrExpenditureNotFound
        /\ DBStep(p, "put_update_write")
            => /\ pc'[p] = "done" /\ LastError(p) = NoErr
               /\ table' = Update(table, job[p].rec[1])
        /\ DBStep(p, "delete_write")
            => /\ pc'[p] = "done" /\ LastError(p) = NoErr
               /\ table' = Delete(table, UUIDParse(job[p].req.id).uuid)]_vars

C16_Witness ==
    /\ backend = "db"
    /\ \E p, q \in Procs :
          /\ p # q
          /\ pc[p] = "done" /\ pc[q] = "done"
          /\ Route(job[p].req) = "DeleteExpenditure"
          /\ Route(job[q].req) = "DeleteExpenditure"
          /\ job[p].req.id = job[q].req.id
          /\ job[p].status = StatusNoContent
          /\ job[q].status = StatusNoContent

----------------------------------------------------------------------------
(* Properties of the in-memory store with its lock (SpecLock) *)

\* the map as records: each key with the fields of the object it points to
View == [k \in DOMAIN Expenditures |-> heap[Expenditures[k]]]

\* caller p holds the lock, exclusive or shared
Holds(p) == lk.w = p \/ p \in lk.r

\* caller p is between the return of its Lock/RLock and its Unlock/RUnlock
InCS(p) == lpc[p] \in {"cs", "write", "Unlock"}

\* the step in which the method caller p called fixes what it returns
Returns(p) == ljob[p].ret = <<>> /\ ljob'[p].ret # <<>>

\* the records behind a list of pointers
Deref(ptrs) == [i \in 1..Len(ptrs) |-> heap[ptrs[i]]]

(* C12: no add, update or delete is in its critical section together with any
   other operation; each operation fixes its result in one step taken while it
   holds the lock, and in that step its result and the change of the map are
   those of the operation run alone on the map of that instant (get-all returns
   one pointer per entry of the map of that instant); no other step changes
   the map. *)
C12_Linearizable ==
    [][/\ \A p, q \in Procs :
            (p # q /\ InCS(p)' /\ InCS(q)')
                => (ljob'[p].call.op \notin Writers /\ ljob'[q].call.op \notin Writers)
       /\ \A p \in Procs :
            Returns(p) =>
                /\ Holds(p)
                /\ LET c == ljob[p].call
                       j == ljob'[p]
                   IN CASE c.op = "AddExpenditure" ->
                            LET s == MemoryService_AddExpenditure(View, c.rec[1])
                            IN j.ret[1] = s.err /\ View' = s.m
                        [] c.op = "UpdateExpenditure" ->
                            LET s == MemoryService_UpdateExpenditure(View, c.rec[1])
                            IN j.ret[1] = s.err /\ View' = s.m
                        [] c.op = "DeleteExpenditure" ->
                            LET s == MemoryService_DeleteExpenditure(View, c.id)
                            IN j.ret[1] = s.err /\ View' = s.m
                        [] c.op = "GetExpenditureByID" ->
                            LET s == MemoryService_GetExpenditureByID(View, c.id)
                            IN j.ret[1] = s.err /\ Deref(j.ptrs) = s.e /\ View' = View
                        [] c.op = "GetAllExpenditures" ->
                            /\ j.ret[1] = NoErr
                            /\ Len(j.ptrs) = Cardinality(DOMAIN Expenditures)
                            /\ {j.ptrs[i] : i \in 1..Len(j.ptrs)}
                                    = {Expenditures[k] : k \in DOMAIN Expenditures}
                            /\ View' = View
       /\ View' # View => \E p \in Procs : Returns(p)]_vars

C12_Witness ==
    \E p, q \in Procs :
        /\ lpc[p] = "Unlock"
        /\ ljob[p].call.op = "GetAllExpenditures"
        /\ Len(ljob[p].ptrs) >= 1
        /\ lpc[q] = "Lock"
        /\ ljob[q].call.op = "UpdateExpenditure"

(* C13: every record a handler has encoded from what get-by-id or get-all
   returned, reading its fields after the lock was released, equals one record
   that was passed whole to an add or an update. *)
C13_NoTornRecord ==
    \A p \in Procs :
        \A i \in 1..Len(ljob[p].out) : ljob[p].out[i] \in written

C13_Witness ==
    \E p, q \in Procs :
        /\ lpc[p] = "done"
        /\ ljob[p].call.op = "GetExpenditureByID"
        /\ ljob[p].out = <<EarlierRecord>>
        /\ lpc[q] = "done"
        /\ ljob[q].call.op = "UpdateExpenditure"
        /\ ljob[q].call.id = ljob[p].call.id
        /\ ljob[q].ret = <<NoErr>>
        /\ ljob[q].rel = 1

\* every caller took the lock at most once, holds it exactly between taking
\* and releasing it, and has released it when its method has returned
LockBalanced ==
    \A p \in Procs :
        /\ ljob[p].acq <= 1
        /\ ljob[p].rel <= ljob[p].acq
        /\ Holds(p) <=> (ljob[p].acq = 1 /\ ljob[p].rel = 0)
        /\ lpc[p] \in {"encode", "done"} => (ljob[p].acq = 1 /\ ljob[p].rel = 1)

\* while a call is under way, some caller with a call under way can take a step
NoDeadlock ==
    (\E p \in Procs : lpc[p] \notin {"idle", "done"})
        => \E p \in Procs : lpc[p] \notin {"idle", "done"} /\ ENABLED LockStep(p)

(* C14: every operation takes the lock exactly once and has released it when it
   has returned, on the already-exists and not-found returns too; no state with
   a call under way is a deadlock; under fair scheduling every call that was
   made returns. *)
C14_LockReleasedAndReturns ==
    /\ [](LockBalanced /\ NoDeadlock)
    /\ \A p \in Procs : (lpc[p] # "idle") ~> (lpc[p] = "done")

C14_Witness ==
    /\ \A p \in Procs : lpc[p] = "done" /\ ljob[p].acq = 1 /\ ljob[p].rel = 1
    /\ \E p \in Procs : ljob[p].ret = <<ErrExpenditureAlreadyExists>>
    /\ \E p \in Procs : ljob[p].ret = <<ErrExpenditureNotFound>>
    /\ lk = Unlocked

====
